---- MODULE Spec2Model ----
(***************************************************************************)
(* Model of kaiko/kaiko.py: the credential/header holder (KaikoClient),    *)
(* the Data Request classes (KaikoData and its four products) and the      *)
(* order-book price-level synthesis (add_price_levels).                    *)
(*                                                                         *)
(* Python values are modelled as strings; None is the value NoneVal.  A    *)
(* dict is a function whose domain is its key set.  A str used by          *)
(* add_price_levels is a sequence of one-character strings, so that        *)
(* split / join / float act on characters.                                 *)
(***************************************************************************)
EXTENDS Integers, Sequences, FiniteSets, TLC

VARIABLES
    env,        \* value of the process environment variable KAIKO_API_KEY
    clients,    \* the KaikoClient objects constructed so far
    defaults,   \* the default `params` dict object of each product's __init__
    insts,      \* the Data Request objects, in construction order
    now,        \* the current time (hours)
    lastRead,   \* what the property read of the step just taken returned
    pdf,        \* add_price_levels: the table handed in (column -> value)
    pout        \* add_price_levels: what the call produced

vars == <<env, clients, defaults, insts, now, lastRead, pdf, pout>>

\* ------------------------------------------------------------------ bounds

MaxInst == 1
MaxShared == 2
MaxNow == 1
MaxClients == 2
MaxRows == 1
MaxCols == 2

\* ------------------------------------------------------------ Python values

NoneVal == "<None>"

\* str(v), as str.format renders a value
Str(v) == IF v = NoneVal THEN "None" ELSE v

\* bool(v) of a string or None
Truthy(v) == v # NoneVal /\ v # ""

\* a or b
Or(a, b) == IF Truthy(a) THEN a ELSE b

EmptyDict == <<>>

\* ------------------------------------------------------------- KaikoClient

BaseUrlNames == {"us", "eu", "rapidapi"}

BaseUrls(b) ==
    CASE b = "us" -> "https://us.market-api.kaiko.io/"
      [] b = "eu" -> "https://eu.market-api.kaiko.io/"
      [] b = "rapidapi" -> "https://kaiko-cryptocurrency-market-data.p.rapidapi.com/"

\* property api_key: environ.get(...) or '', then api_key_input or that
api_key(input, e) == Or(input, Or(e, ""))

\* the dict __init__ and update_headers assign to self.headers
Headers(input, e) ==
    ("Accept" :> "application/json") @@ ("Accept-Encoding" :> "gzip")
        @@ ("X-Api-Key" :> api_key(input, e))

KeyInputs == {"", NoneVal, "key-1", "key-2"}
EnvValues == {NoneVal, "", "env-key"}

\* KaikoClient(api_key, base_url)
NewClient(key, b) ==
    /\ Len(clients) < MaxClients
    /\ clients' = Append(clients,
            [base_url |-> BaseUrls(b), api_key_input |-> key,
             headers |-> Headers(key, env), assigned |-> FALSE])
    /\ UNCHANGED <<env, defaults, insts, now, lastRead, pdf, pout>>

StaleHeaders(c, newval) == c.headers

\* update_headers, with _api_key_input already set to newval
update_headers(c, newval) == Headers(newval, env)

\* client.api_key_input = newval
SetApiKeyInput(i, newval) ==
    /\ i \in 1..Len(clients)
    /\ clients' = [clients EXCEPT ![i] =
            [@ EXCEPT !.api_key_input = newval,
                      !.headers = update_headers(clients[i], newval),
                      !.assigned = TRUE]]
    /\ UNCHANGED <<env, defaults, insts, now, lastRead, pdf, pout>>

\* -------------------------------------------------- products (descriptors)

Products == {"TickTrades", "Candles", "OrderBookSnapshots", "OrderBookAggregations"}

ReqNames == {"commodity", "data_version", "exchange", "instrument_class", "instrument"}

\* self.parameter_space of each product
parameter_space(p) ==
    CASE p = "TickTrades" ->
            {"start_time", "end_time", "page_size", "continuation_token"}
      [] p = "Candles" ->
            {"interval", "start_time", "end_time", "page_size",
             "continuation_token", "sort"}
      [] p = "OrderBookSnapshots" ->
            {"start_time", "end_time", "page_size", "continuation_token",
             "slippage", "slippage_ref", "orders", "limit_orders"}
      [] p = "OrderBookAggregations" ->
            {"start_time", "end_time", "page_size", "continuation_token",
             "slippage", "slippage_ref", "interval"}

\* the default value of the `params` argument: one dict object per __init__
DefaultParams(p) ==
    IF p \in {"TickTrades", "Candles"}
    THEN [page_size |-> "100000"]
    ELSE [page_size |-> "100"]

\* the `commodity` each product's __init__ writes into req_params
Commodity(p) ==
    IF p \in {"TickTrades", "Candles"} THEN "trades" ELSE "order_book_snapshots"

\* A URL template is a sequence of literals <<"L", text>> and placeholders
\* <<"P", name>>.
TemplateHead ==
    << <<"L", "v1/data/">>, <<"P", "commodity">>, <<"L", ".">>,
       <<"P", "data_version">>, <<"L", "/exchanges/">>, <<"P", "exchange">>,
       <<"L", "/">>, <<"P", "instrument_class">>, <<"L", "/">>,
       <<"P", "instrument">> >>

TemplateTail(p) ==
    CASE p = "TickTrades" -> "/trades"
      [] p = "Candles" -> "/aggregations/count_ohlcv_vwap"
      [] p = "OrderBookSnapshots" -> "/snapshots/full"
      [] p = "OrderBookAggregations" -> "/ob_aggregations/full"

Template(p) == Append(TemplateHead, <<"L", TemplateTail(p)>>)

\* self.endpoint = self.client.base_url + endpoint
Endpoint(base_url, p) == << <<"L", base_url>> >> \o Template(p)

Placeholders(t) == {t[i][2] : i \in {j \in DOMAIN t : t[j][1] = "P"}}

\* str.format(**m): every placeholder replaced by str() of its value
Format(t, m) ==
    [i \in DOMAIN t |-> IF t[i][1] = "P" THEN Str(m[t[i][2]]) ELSE t[i][2]]

\* --------------------------------------------------- Timestamp Normalizer

TimeKeys == {"start_time", "end_time"}

\* the wire format of the instant t
Wire(t) == "T" \o ToString(t) \o ":00:00Z"

RelativeExprs == {"1 hour ago"}
RelativeOffset(v) == CASE v = "1 hour ago" -> 1

\* kaiko.utils.convert_timestamp_to_apiformat: a relative expression is
\* resolved against the current time, an absolute date is put in wire
\* format, a wire string is returned as it is.
convert_timestamp_to_apiformat(v, t) ==
    IF v \in RelativeExprs THEN Wire(t - RelativeOffset(v))
    ELSE IF v = "2020-08-06" THEN "2020-08-06T00:00:00Z"
    ELSE v

\* KaikoData._format_param_timestamps: the dict it returns, which is the
\* dict it was given, rewritten in place
format_param_timestamps(params, t) ==
    [k \in DOMAIN params |->
        IF k \in TimeKeys THEN convert_timestamp_to_apiformat(params[k], t)
        ELSE params[k]]

\* ------------------------------------------------------------ Data Request

\* KaikoData._add_to_params
add_to_params(params, kwargs, space) ==
    [k \in (DOMAIN params) \cup ((DOMAIN kwargs) \cap space) |->
        IF k \in (DOMAIN kwargs) \cap space THEN kwargs[k] ELSE params[k]]

\* KaikoData._add_to_req_params
add_to_req_params(req, kwargs) ==
    [k \in DOMAIN req |-> IF k \in DOMAIN kwargs THEN kwargs[k] ELSE req[k]]

QueryOptionalOnly(params, req) == [ok |-> TRUE, val |-> params]

\* property query: dict(**self.params, **self.req_params), a TypeError when
\* the two dicts share a key
query(params, req) ==
    IF (DOMAIN params) \cap (DOMAIN req) # {}
    THEN [ok |-> FALSE, val |-> EmptyDict]
    ELSE [ok |-> TRUE,
          val |-> [k \in (DOMAIN params) \cup (DOMAIN req) |->
                      IF k \in DOMAIN req THEN req[k] ELSE params[k]]]

\* The constructor calls explored: each product with these argument lists.
Variants == {
    [exchange |-> "cbse", instrument |-> "btc-usd", client |-> NoneVal,
     explicit |-> FALSE, params |-> EmptyDict, kwargs |-> EmptyDict],
    [exchange |-> "cbse", instrument |-> "btc-usd", client |-> NoneVal,
     explicit |-> FALSE, params |-> EmptyDict,
     kwargs |-> [foo |-> "bar", start_time |-> "1 hour ago"]],
    [exchange |-> "cbse", instrument |-> "eth-usd", client |-> "eu",
     explicit |-> FALSE, params |-> EmptyDict,
     kwargs |-> [data_version |-> "v1", interval |-> "1d"]],
    [exchange |-> NoneVal, instrument |-> "", client |-> NoneVal,
     explicit |-> FALSE, params |-> EmptyDict, kwargs |-> EmptyDict],
    [exchange |-> "cbse", instrument |-> "btc-usd", client |-> NoneVal,
     explicit |-> TRUE, params |-> [foo |-> "x"],
     kwargs |-> [foo |-> "bar"]],
    [exchange |-> "cbse", instrument |-> "btc-usd", client |-> NoneVal,
     explicit |-> TRUE,
     params |-> [commodity |-> "c", start_time |-> "2020-08-06"],
     kwargs |-> [page_size |-> "10"]] }

NoRead == [inst |-> 0, what |-> "none", ok |-> TRUE, val |-> EmptyDict]

\* self._params: the caller's dict, or the product's shared default dict
ParamsOf(i) ==
    IF insts[i].explicit THEN insts[i].own ELSE defaults[insts[i].product]

InProgress ==
    /\ Len(insts) > 0
    /\ insts[Len(insts)].pc \notin {"loaded", "failed"}

Cur == Len(insts)

\* self._params updated in place to d, the other objects untouched
WriteParams(i, d, rec) ==
    IF insts[i].explicit
    THEN /\ insts' = [insts EXCEPT ![i] = [rec EXCEPT !.own = d]]
         /\ UNCHANGED defaults
    ELSE /\ insts' = [insts EXCEPT ![i] = rec]
         /\ defaults' = [defaults EXCEPT ![insts[i].product] = d]

\* Product.__init__ up to the first _form_url of KaikoData.__init__
Begin(p, v, max) ==
    /\ ~InProgress
    /\ Len(insts) < max
    /\ LET base == IF v.client = NoneVal THEN "us" ELSE v.client
           req == [commodity |-> Commodity(p), data_version |-> "latest",
                   exchange |-> v.exchange, instrument_class |-> "spot",
                   instrument |-> v.instrument]
           ep == Endpoint(BaseUrls(base), p)
       IN insts' = Append(insts,
            [product |-> p, kwargs |-> v.kwargs, explicit |-> v.explicit,
             own |-> v.params,
             client |-> [base_url |-> BaseUrls(base), api_key_input |-> "",
                         headers |-> Headers("", env)],
             endpoint |-> ep, req_params |-> req,
             url |-> Format(ep, req), pagination |-> TRUE,
             pc |-> "new", df |-> <<>>, query_api |-> <<>>,
             printed |-> <<>>, fetches |-> <<>>])
    /\ lastRead' = NoRead
    /\ UNCHANGED <<env, clients, defaults, now, pdf, pout>>

\* self._add_to_params(**kwargs); self._add_to_req_params(**kwargs)
RouteKwargs ==
    /\ InProgress
    /\ insts[Cur].pc = "new"
    /\ LET me == insts[Cur]
       IN WriteParams(Cur,
            add_to_params(ParamsOf(Cur), me.kwargs, parameter_space(me.product)),
            [me EXCEPT !.req_params = add_to_req_params(me.req_params, me.kwargs),
                       !.pc = "routed"])
    /\ lastRead' = NoRead
    /\ UNCHANGED <<env, clients, now, pdf, pout>>

StaleUrl(me) == me.url

\* KaikoData._form_url
form_url(me) == Format(me.endpoint, me.req_params)

\* the second self._form_url() and the logging call, whose __repr__ reads
\* self.params
FormUrl ==
    /\ InProgress
    /\ insts[Cur].pc = "routed"
    /\ LET me == insts[Cur]
       IN WriteParams(Cur, format_param_timestamps(ParamsOf(Cur), now),
            [me EXCEPT !.url = form_url(me), !.pc = "configured"])
    /\ lastRead' = NoRead
    /\ UNCHANGED <<env, clients, now, pdf, pout>>

\* what _request_api hands to the fetcher
FetchArgs(me, params) ==
    [url |-> me.url, headers |-> me.client.headers, params |-> params,
     pagination |-> me.pagination]

\* kaiko.utils.request_df with return_query=True: the table (here its
\* number of rows) and the query that was sent
request_df(args, rows) == [df |-> <<rows>>, query_api |-> <<args.params>>]

\* self._request_api() returning a table of `rows` rows
RequestApi(rows) ==
    /\ InProgress
    /\ insts[Cur].pc = "configured"
    /\ LET me == insts[Cur]
           params == format_param_timestamps(ParamsOf(Cur), now)
           args == FetchArgs(me, params)
           res == request_df(args, rows)
       IN WriteParams(Cur, params,
            [me EXCEPT !.fetches = Append(@, args), !.df = res.df,
                       !.query_api = res.query_api, !.pc = "fetched"])
    /\ lastRead' = NoRead
    /\ UNCHANGED <<env, clients, now, pdf, pout>>

\* self._request_api() when the fetcher raises: the constructor raises
RequestApiFails ==
    /\ InProgress
    /\ insts[Cur].pc = "configured"
    /\ LET me == insts[Cur]
           params == format_param_timestamps(ParamsOf(Cur), now)
       IN WriteParams(Cur, params,
            [me EXCEPT !.fetches = Append(@, FetchArgs(me, params)),
                       !.pc = "failed"])
    /\ lastRead' = NoRead
    /\ UNCHANGED <<env, clients, now, pdf, pout>>

\* the statements after self._request_api() in each product's __init__
Diagnostic(me) ==
    IF /\ me.product \in {"OrderBookSnapshots", "OrderBookAggregations"}
       /\ me.df[1] = 0
    THEN << [text |-> "No data was found for the time range selected.",
             query |-> me.query_api[1]] >>
    ELSE <<>>

\* the end of the constructor
Finish ==
    /\ InProgress
    /\ insts[Cur].pc = "fetched"
    /\ insts' = [insts EXCEPT ![Cur] =
            [@ EXCEPT !.printed = Diagnostic(insts[Cur]), !.pc = "loaded"]]
    /\ lastRead' = NoRead
    /\ UNCHANGED <<env, clients, defaults, now, pdf, pout>>

\* a read of the property `params` of a constructed object
ReadParams(i) ==
    /\ ~InProgress
    /\ i \in 1..Len(insts)
    /\ insts[i].pc = "loaded"
    /\ LET params == format_param_timestamps(ParamsOf(i), now)
       IN /\ WriteParams(i, params, insts[i])
          /\ lastRead' = [inst |-> i, what |-> "params", ok |-> TRUE,
                          val |-> params]
    /\ UNCHANGED <<env, clients, now, pdf, pout>>

\* a read of the property `query` of a constructed object
ReadQuery(i) ==
    /\ ~InProgress
    /\ i \in 1..Len(insts)
    /\ insts[i].pc = "loaded"
    /\ LET params == format_param_timestamps(ParamsOf(i), now)
           q == query(params, insts[i].req_params)
       IN /\ WriteParams(i, params, insts[i])
          /\ lastRead' = [inst |-> i, what |-> "query", ok |-> q.ok,
                          val |-> q.val]
    /\ UNCHANGED <<env, clients, now, pdf, pout>>

\* time passes
Tick ==
    /\ now < MaxNow
    /\ now' = now + 1
    /\ lastRead' = NoRead
    /\ UNCHANGED <<env, clients, defaults, insts, pdf, pout>>

\* ------------------------------------------------------- add_price_levels

\* A table of one row is the sequence of its columns, <<label, value>>; a
\* label is a sequence of characters, a value a fraction [n, d].  Floats are
\* taken as exact.

DigitChars == {"0", "1", "2", "3", "4", "5", "6", "7", "8", "9"}

DigitValue(c) ==
    CASE c = "0" -> 0 [] c = "1" -> 1 [] c = "2" -> 2 [] c = "3" -> 3
      [] c = "4" -> 4 [] c = "5" -> 5 [] c = "6" -> 6 [] c = "7" -> 7
      [] c = "8" -> 8 [] c = "9" -> 9

RECURSIVE Pow10(_)
Pow10(n) == IF n = 0 THEN 1 ELSE 10 * Pow10(n - 1)

\* the number a sequence of digits writes (0 for none)
RECURSIVE DigitsValue(_)
DigitsValue(s) ==
    IF s = <<>> THEN 0
    ELSE 10 * DigitsValue(SubSeq(s, 1, Len(s) - 1)) + DigitValue(s[Len(s)])

\* str.startswith
startswith(s, prefix) ==
    /\ Len(s) >= Len(prefix)
    /\ SubSeq(s, 1, Len(prefix)) = prefix

\* str.find, 1-based; 0 when sep does not occur
Find(s, sep) ==
    LET at == {i \in 1..(Len(s) - Len(sep) + 1) :
                    SubSeq(s, i, i + Len(sep) - 1) = sep}
    IN IF at = {} THEN 0 ELSE CHOOSE i \in at : \A j \in at : i <= j

\* str.split(sep)
RECURSIVE split(_, _)
split(s, sep) ==
    LET i == Find(s, sep)
    IN IF i = 0 THEN <<s>>
       ELSE <<SubSeq(s, 1, i - 1)>> \o split(SubSeq(s, i + Len(sep), Len(s)), sep)

\* sep.join(parts)
RECURSIVE join(_, _)
join(sep, parts) ==
    IF parts = <<>> THEN <<>>
    ELSE IF Len(parts) = 1 THEN parts[1]
    ELSE parts[1] \o sep \o join(sep, Tail(parts))

\* float(s) for an unsigned decimal literal: digits with at most one point
\* and at least one digit; anything else raises ValueError
float(s) ==
    LET dots == {i \in DOMAIN s : s[i] = "."}
        wellformed ==
            /\ Cardinality(dots) <= 1
            /\ \A i \in (DOMAIN s) \ dots : s[i] \in DigitChars
            /\ (DOMAIN s) \ dots # {}
    IN IF ~wellformed THEN [ok |-> FALSE, n |-> 0, d |-> 1]
       ELSE LET dot == IF dots = {} THEN Len(s) + 1 ELSE CHOOSE i \in dots : TRUE
                whole == SubSeq(s, 1, dot - 1)
                frac == SubSeq(s, dot + 1, Len(s))
            IN [ok |-> TRUE, n |-> DigitsValue(whole \o frac), d |-> Pow10(Len(frac))]

Chars_volume == <<"v", "o", "l", "u", "m", "e">>
Chars_price == <<"p", "r", "i", "c", "e">>
Chars_mid_price == <<"m", "i", "d", "_">> \o Chars_price

SideChars(side) ==
    IF side = "bid" THEN <<"b", "i", "d">> ELSE <<"a", "s", "k">>

Columns(df) == [i \in DOMAIN df |-> df[i][1]]

\* df[label]
Col(df, label) == df[CHOOSE i \in DOMAIN df : df[i][1] = label][2]

\* df[label] = value
SetCol(df, label, value) ==
    IF \E i \in DOMAIN df : df[i][1] = label
    THEN [i \in DOMAIN df |-> IF df[i][1] = label THEN <<label, value>> ELSE df[i]]
    ELSE Append(df, <<label, value>>)

\* float('.'.join(lvl_lab.split('_')))
Level(lvl_lab) == float(join(<<".">>, split(lvl_lab, <<"_">>)))

\* the body of `for lab in labs` for the labels left, stopping at a raise
RECURSIVE ForLabs(_, _, _)
ForLabs(df, labs, side) ==
    IF labs = <<>> THEN [raised |-> FALSE, df |-> df]
    ELSE LET lab == Head(labs)
             pieces == split(lab, Chars_volume)
             lvl_lab == pieces[Len(pieces)]
             lvl == Level(lvl_lab)
             eps == IF side = "bid" THEN -1 ELSE 1
             newlab == SideChars(side) \o <<"_">> \o Chars_price \o lvl_lab
             mid == Col(df, Chars_mid_price)
         IN IF ~lvl.ok THEN [raised |-> TRUE, df |-> df]
            ELSE ForLabs(
                    SetCol(df, newlab,
                           [n |-> mid.n * (100 * lvl.d + eps * lvl.n),
                            d |-> mid.d * 100 * lvl.d]),
                    Tail(labs), side)

\* labs = [l for l in df.columns if l.startswith('%s_volume' % side)]
Labs(df, side) ==
    SelectSeq(Columns(df),
              LAMBDA l : startswith(l, SideChars(side) \o <<"_">> \o Chars_volume))

add_price_levels(df) ==
    LET bid == ForLabs(df, Labs(df, "bid"), "bid")
    IN IF bid.raised THEN bid ELSE ForLabs(bid.df, Labs(bid.df, "ask"), "ask")

\* the level suffixes explored: `_d` and `_d_f` as the docstring writes
\* them, `d` and `d_f` as the provider names its columns
SuffixDigits == {"0", "2", "5"}
Suffixes ==
    {<<"_", a>> : a \in SuffixDigits}
        \cup {<<"_", a, "_", b>> : a, b \in SuffixDigits}
        \cup {<<a>> : a \in SuffixDigits}
        \cup {<<a, "_", b>> : a, b \in SuffixDigits}

VolumeLabels ==
    {SideChars(side) \o <<"_">> \o Chars_volume \o x :
        side \in {"bid", "ask"}, x \in Suffixes}

MidPrices == {[n |-> 100, d |-> 1], [n |-> 50, d |-> 1]}

\* one-row tables: mid_price and up to MaxCols distinct volume columns
RECURSIVE TablesOf(_)
TablesOf(k) ==
    IF k = 0 THEN {<< <<Chars_mid_price, m>> >> : m \in MidPrices}
    ELSE LET shorter == TablesOf(k - 1)
         IN shorter \cup
            {Append(t, <<l, [n |-> 7, d |-> 1]>>) :
                t \in {u \in shorter : Len(u) = k}, l \in VolumeLabels}

Tables == {t \in TablesOf(MaxCols) :
            \A i, j \in DOMAIN t : i # j => t[i][1] # t[j][1]}

NotCalled == [done |-> FALSE, raised |-> FALSE, df |-> <<>>]

\* df = add_price_levels(df)
AddPriceLevels ==
    /\ ~pout.done
    /\ LET r == add_price_levels(pdf)
       IN pout' = [done |-> TRUE, raised |-> r.raised, df |-> r.df]
    /\ UNCHANGED <<env, clients, defaults, insts, now, lastRead, pdf>>

\* ---------------------------------------------------------- specifications

Start(e, table) ==
    /\ env = e
    /\ clients = <<>>
    /\ defaults = [p \in Products |-> DefaultParams(p)]
    /\ insts = <<>>
    /\ now = 0
    /\ lastRead = NoRead
    /\ pdf = table
    /\ pout = NotCalled

Init == Start(NoneVal, <<>>)

\* the steps of a construction once begun, and the reads of a built object
Steps ==
    \/ RouteKwargs
    \/ FormUrl
    \/ \E rows \in 0..MaxRows : RequestApi(rows)
    \/ RequestApiFails
    \/ Finish
    \/ \E i \in 1..Len(insts) : ReadParams(i)
    \/ \E i \in 1..Len(insts) : ReadQuery(i)

\* Data Requests built and read at one instant
Next ==
    \/ \E p \in Products, v \in Variants : Begin(p, v, MaxInst)
    \/ Steps

Spec == Init /\ [][Next]_vars

\* several Data Requests built one after the other while time passes
NextShared ==
    \/ \E p \in Products, v \in Variants : Begin(p, v, MaxShared)
    \/ Steps
    \/ Tick

SpecShared == Init /\ [][NextShared]_vars

\* KaikoClient objects built and re-keyed under each environment
InitClient == \E e \in EnvValues : Start(e, <<>>)

NextClient ==
    \/ \E key \in KeyInputs, b \in BaseUrlNames : NewClient(key, b)
    \/ \E i \in 1..Len(clients), newval \in KeyInputs : SetApiKeyInput(i, newval)

SpecClient == InitClient /\ [][NextClient]_vars

\* add_price_levels applied to each table
InitPrice == \E t \in Tables : Start(NoneVal, t)

NextPrice == AddPriceLevels

SpecPrice == InitPrice /\ [][NextPrice]_vars

\* ------------------------------------------------- properties: KaikoClient

\* C8: every KaikoClient, as constructed and after any assignments to
\* api_key_input, has X-Api-Key equal to the explicit key when that is
\* non-empty and otherwise to KAIKO_API_KEY ('' when unset), with Accept and
\* Accept-Encoding at their fixed values.
C8_HeaderKeyFollowsInput ==
    \A i \in 1..Len(clients) :
        LET c == clients[i] IN
        /\ DOMAIN c.headers = {"Accept", "Accept-Encoding", "X-Api-Key"}
        /\ c.headers["Accept"] = "application/json"
        /\ c.headers["Accept-Encoding"] = "gzip"
        /\ c.headers["X-Api-Key"] =
              IF c.api_key_input \notin {"", NoneVal} THEN c.api_key_input
              ELSE IF env = NoneVal THEN "" ELSE env

\* C8 witness: a client whose key was assigned back to '' and whose header
\* fell back to the environment's key, beside one keeping its explicit key
C8_Witness ==
    \E i, j \in 1..Len(clients) :
        /\ clients[i].assigned
        /\ clients[i].api_key_input = ""
        /\ clients[i].headers["X-Api-Key"] = "env-key"
        /\ clients[j].assigned
        /\ clients[j].headers["X-Api-Key"] = "key-2"

\* -------------------------------------------- properties: add_price_levels

\* a level suffix as the claim writes it: `_d` or `_d_f`
ClaimedSuffix(x) ==
    \/ Len(x) = 2 /\ x[1] = "_" /\ x[2] \in DigitChars
    \/ Len(x) = 4 /\ x[1] = "_" /\ x[2] \in DigitChars
                  /\ x[3] = "_" /\ x[4] \in DigitChars

\* the percent such a suffix denotes: d for `_d`, d.f for `_d_f`
ClaimedPercent(x) ==
    IF Len(x) = 2 THEN [n |-> DigitValue(x[2]), d |-> 1]
    ELSE [n |-> 10 * DigitValue(x[2]) + DigitValue(x[4]), d |-> 10]

SameFraction(a, b) == a.n * b.d = b.n * a.d

\* C4: after add_price_levels, every column {side}_volume{suffix} with a
\* suffix `_d` or `_d_f` has its column {side}_price{suffix}, equal to
\* mid_price * (1 + sign * level / 100) with sign -1 for bid, +1 for ask and
\* level the percent d or d.f (mid 100: ask `_0_5` gives 100.5, bid `_2`
\* gives 98).
C4_PriceLevels ==
    pout.done =>
        \A i \in DOMAIN pdf : \A side \in {"bid", "ask"} :
            LET lab == pdf[i][1]
                prefix == SideChars(side) \o <<"_">> \o Chars_volume
                suffix == SubSeq(lab, Len(prefix) + 1, Len(lab))
                level == ClaimedPercent(suffix)
                sign == IF side = "bid" THEN -1 ELSE 1
                mid == Col(pdf, Chars_mid_price)
                price == SideChars(side) \o <<"_">> \o Chars_price \o suffix
            IN (startswith(lab, prefix) /\ ClaimedSuffix(suffix)) =>
                  /\ ~pout.raised
                  /\ \E j \in DOMAIN pout.df :
                        /\ pout.df[j][1] = price
                        /\ SameFraction(pout.df[j][2],
                              [n |-> mid.n * (100 * level.d + sign * level.n),
                               d |-> mid.d * 100 * level.d])

\* ------------------------------------------------- properties: Data Request

\* the kwargs of object i have been routed
Routed(i) == insts[i].pc \in {"routed", "configured", "fetched", "loaded", "failed"}

\* the fetch of object i has been issued
Issued(i) == insts[i].pc \in {"fetched", "loaded", "failed"}

\* what a read of the property `query` of object i returns in this state
ResolvedQuery(i) ==
    query(format_param_timestamps(ParamsOf(i), now), insts[i].req_params)

\* C1: for every product and every construction, once the keyword
\* arguments are routed every keyword named in the product's whitelist is a
\* key of the Resolved Query, every keyword named neither in the whitelist
\* nor among the required names is not, and reading the Resolved Query
\* raises nothing.
C1_KeywordRouting ==
    \A i \in 1..Len(insts) :
        Routed(i) =>
            LET q == ResolvedQuery(i)
                space == parameter_space(insts[i].product)
            IN /\ q.ok
               /\ \A k \in DOMAIN insts[i].kwargs :
                    /\ k \in space => k \in DOMAIN q.val
                    /\ k \notin space \cup ReqNames => k \notin DOMAIN q.val

\* The same for the constructions that leave `params` at the product's
\* default: this much holds.
KeywordRoutingOverDefaults ==
    \A i \in 1..Len(insts) :
        (Routed(i) /\ ~insts[i].explicit) =>
            LET q == ResolvedQuery(i)
                space == parameter_space(insts[i].product)
            IN /\ q.ok
               /\ \A k \in DOMAIN insts[i].kwargs :
                    /\ k \in space => k \in DOMAIN q.val
                    /\ k \notin space \cup ReqNames => k \notin DOMAIN q.val

\* C2: in every state of every Data Request the optional mapping has no key
\* outside the product's whitelist and the required mapping has exactly the
\* declared names.
C2_OptionalWithinWhitelist ==
    \A i \in 1..Len(insts) :
        /\ DOMAIN ParamsOf(i) \subseteq parameter_space(insts[i].product)
        /\ DOMAIN insts[i].req_params = ReqNames

\* a placeholder of object i's template has no key or an unset value
Unset(i) ==
    \E k \in Placeholders(insts[i].endpoint) :
        \/ k \notin DOMAIN insts[i].req_params
        \/ ~Truthy(insts[i].req_params[k])

\* C3: a Data Request whose required mapping leaves a placeholder unset has
\* failed URL resolution and sent no request; one whose required values are
\* all set has a URL with no placeholder left in it.
C3_UnsetFailsResolution ==
    \A i \in 1..Len(insts) :
        /\ Unset(i) => insts[i].pc = "failed" /\ insts[i].fetches = <<>>
        /\ ~Unset(i) =>
              \A j \in DOMAIN insts[i].url :
                  insts[i].url[j] \notin {"{" \o k \o "}" : k \in ReqNames}

\* C5 (first half): a step never changes the optional mapping of an already
\* loaded object built without an explicit `params`.
C5_Frame ==
    \A i \in 1..Len(insts) :
        (insts[i].pc = "loaded" /\ ~insts[i].explicit) =>
            defaults'[insts[i].product] = defaults[insts[i].product]

\* C5 (second half): an object built without an explicit `params` carries,
\* once loaded, only the product's default keys and its own keywords.
C5_Carry ==
    \A i \in 1..Len(insts) :
        (insts[i].pc = "loaded" /\ ~insts[i].explicit) =>
            DOMAIN ParamsOf(i) \subseteq
                (DOMAIN DefaultParams(insts[i].product)) \cup (DOMAIN insts[i].kwargs)

\* C5: Data Request objects built without an explicit `params` share no
\* mutable state: building one never changes the optional mapping of an
\* object already built, and an object carries no keyword of another.
C5_NoSharedState == [][C5_Frame /\ C5_Carry']_vars

\* C6: every read of `params` or `query` returns, for start_time and
\* end_time, the caller's value normalized against the time of the read, and
\* returns every other caller-supplied optional value unmodified.
C6_FreshOnEveryRead ==
    (lastRead.what \in {"params", "query"} /\ lastRead.ok) =>
        LET me == insts[lastRead.inst]
            given == (DOMAIN me.kwargs) \cap parameter_space(me.product)
        IN \A k \in given :
              lastRead.val[k] =
                  IF k \in TimeKeys
                  THEN convert_timestamp_to_apiformat(me.kwargs[k], now)
                  ELSE me.kwargs[k]

\* C7: for every product, a loaded object with a table of zero rows has
\* printed a diagnostic holding the query the fetcher reported, and one with
\* at least one row has printed none.
C7_EmptyResultReported ==
    \A i \in 1..Len(insts) :
        insts[i].pc = "loaded" =>
            /\ insts[i].df[1] = 0 =>
                  \E j \in DOMAIN insts[i].printed :
                      insts[i].printed[j].query = insts[i].query_api[1]
            /\ insts[i].df[1] > 0 => insts[i].printed = <<>>

\* C9: construction is ordered: no fetch before the kwargs are routed and
\* the URL re-resolved, exactly one fetch from then on, the fetch's URL being
\* the template bound with the final required values (keyword overrides
\* included), and a table exposed exactly when the fetch succeeded.
C9_ConstructionOrder ==
    \A i \in 1..Len(insts) :
        LET me == insts[i] IN
        /\ Len(me.fetches) = (IF Issued(i) THEN 1 ELSE 0)
        /\ Routed(i) =>
              \A k \in (DOMAIN me.kwargs) \cap ReqNames :
                  me.req_params[k] = me.kwargs[k]
        /\ \A j \in DOMAIN me.fetches :
              me.fetches[j].url = Format(me.endpoint, me.req_params)
        /\ (me.df # <<>>) <=> (me.pc \in {"fetched", "loaded"})

\* C9 witness: a loaded object whose data_version keyword reached the URL
\* of its fetch
C9_Witness ==
    \E i \in 1..Len(insts) :
        /\ insts[i].pc = "loaded"
        /\ "data_version" \in DOMAIN insts[i].kwargs
        /\ insts[i].fetches[1].url[5] = insts[i].kwargs["data_version"]

====
